---- MODULE Spec2Model ----
(***************************************************************************)
(* FinancialEngine of streamlit_app.py and the main() script that drives   *)
(* it.                                                                     *)
(*                                                                         *)
(* Numbers.  Python floats are modelled as decimal fixed-point numbers     *)
(* with ScaleDigits fractional digits: the integer x stands for x/Scale.   *)
(* Every product and quotient rounds toward zero, so rounding is symmetric *)
(* in the sign, as IEEE rounding is.  Monetary inputs are integers in      *)
(* thousands of currency units, percentages are fixed-point numbers        *)
(* (2500 is 2.5 %).                                                        *)
(***************************************************************************)
EXTENDS Integers, Sequences, FiniteSets, TLC

VARIABLES engine, last, ret

vars == <<engine, last, ret>>

ScaleDigits == 3
Scale == 10 ^ ScaleDigits

----------------------------------------------------------------------------
(* Fixed-point arithmetic.                                                 *)

Abs(x) == IF x < 0 THEN -x ELSE x
Sgn(x) == IF x < 0 THEN -1 ELSE 1
Max(a, b) == IF a >= b THEN a ELSE b

FP(n) == n * Scale

\* a / n for a plain integer n # 0, rounded toward zero
TruncDiv(a, n) == Sgn(a) * Sgn(n) * (Abs(a) \div Abs(n))

\* a * b on fixed-point numbers, computed without leaving 32 bits
FMul(a, b) ==
    LET x == Abs(a)
        y == Abs(b)
    IN  Sgn(a) * Sgn(b) * ((x \div Scale) * y + ((x % Scale) * y) \div Scale)

RECURSIVE FracDigits(_, _, _)
FracDigits(r, b, k) ==
    IF k = 0 THEN 0
    ELSE ((r * 10) \div b) * (10 ^ (k - 1)) + FracDigits((r * 10) % b, b, k - 1)

\* a / b on fixed-point numbers, b # 0, by long division
FDiv(a, b) ==
    LET x == Abs(a)
        y == Abs(b)
    IN  Sgn(a) * Sgn(b) * ((x \div y) * Scale + FracDigits(x % y, y, ScaleDigits))

\* base ** n for a fixed-point base and an integer n (negative n: reciprocal)
RECURSIVE PowNat(_, _)
PowNat(base, n) ==
    IF n = 0 THEN Scale
    ELSE LET h == PowNat(base, n \div 2)
         IN  IF n % 2 = 0 THEN FMul(h, h) ELSE FMul(FMul(h, h), base)

Pow(base, n) == IF n >= 0 THEN PowNat(base, n) ELSE FDiv(Scale, PowNat(base, -n))

\* the decimal literal n/d
Dec(n, d) == (n * Scale) \div d

----------------------------------------------------------------------------
(* Return values: a normal return carries a tuple, a raise carries the     *)
(* name of the exception.                                                  *)

Ok(v) == [status |-> "ok", val |-> v]
Raise(e) == [status |-> e, val |-> <<>>]

\* what a method leaves behind: the object after the call and what it returned
Done(self, out) == [self |-> self, out |-> out]

None == [status |-> "none", val |-> <<>>]
NoEngine == [exists |-> FALSE]

----------------------------------------------------------------------------
(* class FinancialEngine                                                   *)

SAFE_WITHDRAWAL_RATE == Dec(4, 100)
INCOME_REPLACEMENT_RATIO == Dec(75, 100)
INSURANCE_DISCOUNT_RATE == Dec(3, 100)

FinancialEngine_init(age, income, dependents, debt, savings, retire_age, inflation_rate, investment_return) ==
    [age |-> age,
     income |-> income,
     dependents |-> dependents,
     debt |-> debt,
     savings |-> savings,
     retire_age |-> retire_age,
     inflation_rate |-> FDiv(inflation_rate, FP(100)),
     investment_return |-> FDiv(investment_return, FP(100)),
     SAFE_WITHDRAWAL_RATE |-> SAFE_WITHDRAWAL_RATE,
     INCOME_REPLACEMENT_RATIO |-> INCOME_REPLACEMENT_RATIO,
     INSURANCE_DISCOUNT_RATE |-> INSURANCE_DISCOUNT_RATE]

\* mutant: the net need is returned without the floor at 0
calc_insurance_gap_unfloored(self) ==
    LET years_support == IF self.dependents > 0 THEN 20 ELSE 0
        annual_support == FMul(FP(self.income), Dec(75, 100))
        r == self.INSURANCE_DISCOUNT_RATE
        pv_factor == FDiv(Scale - Pow(Scale + r, -years_support), r)
        gross_need == FMul(annual_support, pv_factor)
        total_need == gross_need + FP(self.debt) - FP(self.savings)
    IN  IF years_support = 0 THEN Done(self, Ok(<<0, 0>>))
        ELSE IF r = 0 THEN Done(self, Raise("ZeroDivisionError"))
        ELSE Done(self, Ok(<<total_need, Max(0, gross_need)>>))

\* mutant: the debt is netted out of self.savings in place before the need
\* is computed
calc_insurance_gap_netting(self) ==
    LET years_support == IF self.dependents > 0 THEN 20 ELSE 0
        annual_support == FMul(FP(self.income), Dec(75, 100))
        r == self.INSURANCE_DISCOUNT_RATE
        pv_factor == FDiv(Scale - Pow(Scale + r, -years_support), r)
        gross_need == FMul(annual_support, pv_factor)
        netted == [self EXCEPT !.savings = self.savings - self.debt, !.debt = 0]
        total_need == gross_need - FP(netted.savings)
    IN  IF years_support = 0 THEN Done(self, Ok(<<0, 0>>))
        ELSE IF r = 0 THEN Done(self, Raise("ZeroDivisionError"))
        ELSE Done(netted, Ok(<<Max(0, total_need), Max(0, gross_need)>>))

calc_insurance_gap(self) ==
    LET years_support == IF self.dependents > 0 THEN 20 ELSE 0
        annual_support == FMul(FP(self.income), Dec(75, 100))
        r == self.INSURANCE_DISCOUNT_RATE
        pv_factor == FDiv(Scale - Pow(Scale + r, -years_support), r)
        gross_need == FMul(annual_support, pv_factor)
        total_need == gross_need + FP(self.debt) - FP(self.savings)
    IN  IF years_support = 0 THEN Done(self, Ok(<<0, 0>>))
        ELSE IF r = 0 THEN Done(self, Raise("ZeroDivisionError"))
        ELSE Done(self, Ok(<<Max(0, total_need), Max(0, gross_need)>>))

\* mutant: the guard is years_to_retire < 0
calc_retirement_target_lt0(self) ==
    LET years_to_retire == self.retire_age - self.age
        current_annual_need == FMul(FP(self.income), self.INCOME_REPLACEMENT_RATIO)
        future_annual_need ==
            FMul(current_annual_need, Pow(Scale + self.inflation_rate, years_to_retire))
        target_corpus == FDiv(future_annual_need, self.SAFE_WITHDRAWAL_RATE)
    IN  IF years_to_retire < 0 THEN Done(self, Ok(<<0, 0>>))
        ELSE IF self.SAFE_WITHDRAWAL_RATE = 0 THEN Done(self, Raise("ZeroDivisionError"))
        ELSE Done(self, Ok(<<target_corpus, years_to_retire>>))

calc_retirement_target(self) ==
    LET years_to_retire == self.retire_age - self.age
        current_annual_need == FMul(FP(self.income), self.INCOME_REPLACEMENT_RATIO)
        future_annual_need ==
            FMul(current_annual_need, Pow(Scale + self.inflation_rate, years_to_retire))
        target_corpus == FDiv(future_annual_need, self.SAFE_WITHDRAWAL_RATE)
    IN  IF years_to_retire <= 0 THEN Done(self, Ok(<<0, 0>>))
        ELSE IF self.SAFE_WITHDRAWAL_RATE = 0 THEN Done(self, Raise("ZeroDivisionError"))
        ELSE Done(self, Ok(<<target_corpus, years_to_retire>>))

\* numpy_financial.pmt(rate, nper, pv, fv) with when = 'end' (0)
pmt(rate, nper, pv, fv) ==
    LET when == 0
        temp == Pow(Scale + rate, nper)
        mask == (rate = 0)
        masked_rate == IF mask THEN Scale ELSE rate
        fact == IF mask THEN FP(nper)
                ELSE FDiv(FMul(Scale + FMul(masked_rate, when), temp - Scale), masked_rate)
    IN  -FDiv(fv + FMul(pv, temp), fact)

\* mutant: the savings are passed to pmt as a positive present value
calc_monthly_savings_req_pospv(self, target_corpus, years_to_retire) ==
    LET monthly_rate == TruncDiv(self.investment_return, 12)
        months == years_to_retire * 12
        monthly_req == pmt(monthly_rate, months, FP(self.savings), target_corpus) * (-1)
    IN  IF years_to_retire <= 0 THEN Done(self, Ok(<<0>>))
        ELSE Done(self, Ok(<<monthly_req>>))

calc_monthly_savings_req(self, target_corpus, years_to_retire) ==
    LET monthly_rate == TruncDiv(self.investment_return, 12)
        months == years_to_retire * 12
        monthly_req == pmt(monthly_rate, months, -FP(self.savings), target_corpus) * (-1)
    IN  IF years_to_retire <= 0 THEN Done(self, Ok(<<0>>))
        ELSE Done(self, Ok(<<monthly_req>>))

\* the label of a score
risk_label(score) ==
    IF score >= 4 THEN "High (Growth Focused)"
    ELSE IF score >= 3 THEN "Medium (Balanced)"
    ELSE "Low (Preservation Focused)"

\* mutant: the horizon thresholds are inclusive, years >= 20 and years >= 10
get_risk_profile_inclusive(self) ==
    LET years == self.retire_age - self.age
        debt_ratio == FDiv(FP(self.debt), FP(IF self.income > 0 THEN self.income ELSE 1))
        s1 == IF years >= 20 THEN 3
              ELSE IF years >= 10 THEN 2
              ELSE 1
        s2 == IF debt_ratio < Dec(3, 10) THEN 2
              ELSE IF debt_ratio < Dec(1, 1) THEN 1
              ELSE -1
    IN  Done(self, Ok(<<risk_label(0 + s1 + s2)>>))

\* mutant: the leverage thresholds are inclusive, debt_ratio <= 0.3 and <= 1.0
get_risk_profile_leverage(self) ==
    LET years == self.retire_age - self.age
        debt_ratio == FDiv(FP(self.debt), FP(IF self.income > 0 THEN self.income ELSE 1))
        s1 == IF years > 20 THEN 3
              ELSE IF years > 10 THEN 2
              ELSE 1
        s2 == IF debt_ratio <= Dec(3, 10) THEN 2
              ELSE IF debt_ratio <= Dec(1, 1) THEN 1
              ELSE -1
    IN  Done(self, Ok(<<risk_label(0 + s1 + s2)>>))

get_risk_profile(self) ==
    LET years == self.retire_age - self.age
        debt_ratio == FDiv(FP(self.debt), FP(IF self.income > 0 THEN self.income ELSE 1))
        s1 == IF years > 20 THEN 3
              ELSE IF years > 10 THEN 2
              ELSE 1
        s2 == IF debt_ratio < Dec(3, 10) THEN 2
              ELSE IF debt_ratio < Dec(1, 1) THEN 1
              ELSE -1
        score == 0 + s1 + s2
    IN  Done(self, Ok(<<risk_label(score)>>))

----------------------------------------------------------------------------
(* Streamlit widgets of main(): the values a widget can hand to the        *)
(* script, sampled at its minimum, its default and its maximum.            *)

MoneyHi == 200

\* st.slider(label, min_value, max_value, value): a default outside the
\* range raises StreamlitAPIException before any value is returned
slider_ok(min_value, max_value, value) == min_value <= value /\ value <= max_value
slider(min_value, max_value, value) ==
    {v \in {min_value, value, max_value} : min_value <= v /\ v <= max_value}

\* st.number_input(label, value=, step=) without min_value or max_value:
\* any integer, in thousands
number_input(value) == {-1, value}

AGE_MIN == 18
AGE_MAX == 70
RETIRE_AGE_MAX == 80
RETIRE_AGE_DEFAULT == 65
DEPENDENTS_MAX == 5

MainAge == slider(AGE_MIN, AGE_MAX, 35)
MainRetireAge(age) == slider(age + 1, RETIRE_AGE_MAX, RETIRE_AGE_DEFAULT)
MainIncome == number_input(85)
MainSavings == number_input(40)
MainDebt == number_input(25)
MainDependents == slider(0, DEPENDENTS_MAX, 2)
MainInflation == slider(FP(1), FP(10), Dec(25, 10))
\* a return of 1.0 % a year is a monthly rate below the resolution of the
\* fixed-point numbers, so the slider is sampled at its default and maximum
MainReturn == slider(FP(1), FP(12), FP(7)) \ {FP(1)}

----------------------------------------------------------------------------
(* Arguments a direct caller of the class (a test) passes.                 *)

DirectAges == {40}
DirectYears == {-1, 0, 10, 11, 20, 21}
DirectIncome == {-1, 0, 10}
DirectDebt == {-1, 0, 3, 5, 10}
DirectSavings == {-1, 0, MoneyHi}
DirectDependents == {0, 2, 6}
DirectInflation == {0, Dec(25, 10)}
DirectReturn == {0, FP(7)}
DirectTargets == {FP(100)}
DirectYearsToRetire == {-1, 0, 1}

\* values a test sets a constant attribute to
Overrides ==
    {<<"INCOME_REPLACEMENT_RATIO", INCOME_REPLACEMENT_RATIO>>,
     <<"INCOME_REPLACEMENT_RATIO", Dec(5, 10)>>,
     <<"INSURANCE_DISCOUNT_RATE", INSURANCE_DISCOUNT_RATE>>,
     <<"INSURANCE_DISCOUNT_RATE", 0>>}

\* <<target_corpus, years_to_retire>> of a call of calc_monthly_savings_req:
\* chosen by the caller, or the output of calc_retirement_target fed back
MonthlyArgs(self) ==
    LET t == calc_retirement_target(self).out
    IN  (DirectTargets \X DirectYearsToRetire)
        \cup (IF t.status = "ok" THEN {t.val} ELSE {})

CalcOps == {"calc_insurance_gap", "calc_retirement_target",
            "calc_monthly_savings_req", "get_risk_profile"}

----------------------------------------------------------------------------
(* The state machine follows one FinancialEngine object at a time through  *)
(* its lifecycle, create -> query any number of times -> discard: engine   *)
(* is the object (NoEngine while there is none), last the operation that   *)
(* ran last, ret what it returned.                                         *)

Init ==
    /\ engine = NoEngine
    /\ last = "start"
    /\ ret = None

Construct ==
    /\ engine = NoEngine
    /\ \E age \in DirectAges, y \in DirectYears, income \in DirectIncome,
       dependents \in DirectDependents, debt \in DirectDebt,
       savings \in DirectSavings, inflation \in DirectInflation,
       roi \in DirectReturn :
        engine' = FinancialEngine_init(age, income, dependents, debt, savings,
                                       age + y, inflation, roi)
    /\ last' = "__init__"
    /\ ret' = Ok(<<>>)

\* the caller drops its reference to the object
Discard ==
    /\ engine # NoEngine
    /\ engine' = NoEngine
    /\ last' = "discard"
    /\ ret' = None

SetConstant ==
    /\ engine # NoEngine
    /\ \E o \in Overrides :
        /\ engine' = [engine EXCEPT ![o[1]] = o[2]]
        /\ last' = "setattr"
        /\ ret' = Ok(<<>>)

CallInsuranceGap ==
    /\ engine # NoEngine
    /\ LET r == calc_insurance_gap(engine)
       IN  /\ engine' = r.self
           /\ ret' = r.out
    /\ last' = "calc_insurance_gap"

CallRetirementTarget ==
    /\ engine # NoEngine
    /\ LET r == calc_retirement_target(engine)
       IN  /\ engine' = r.self
           /\ ret' = r.out
    /\ last' = "calc_retirement_target"

\* the call's arguments are kept with its result: val = <<monthly_req, target, years>>
CallMonthlySavingsReq ==
    /\ engine # NoEngine
    /\ \E a \in MonthlyArgs(engine) :
        LET r == calc_monthly_savings_req(engine, a[1], a[2])
        IN  /\ engine' = r.self
            /\ ret' = [r.out EXCEPT !.val = @ \o a]
    /\ last' = "calc_monthly_savings_req"

CallRiskProfile ==
    /\ engine # NoEngine
    /\ LET r == get_risk_profile(engine)
       IN  /\ engine' = r.self
           /\ ret' = r.out
    /\ last' = "get_risk_profile"

\* main(): one run of the script, from the widgets to the four results
main(age, retire_age, income, savings, debt, dependents, inflation, roi) ==
    LET e0 == FinancialEngine_init(age, income, dependents, debt, savings,
                                   retire_age, inflation, roi)
        r1 == calc_insurance_gap(e0)
        r2 == calc_retirement_target(r1.self)
        r3 == calc_monthly_savings_req(r2.self, r2.out.val[1], r2.out.val[2])
        r4 == get_risk_profile(r3.self)
        locals == [age |-> age, retire_age |-> retire_age, income |-> income,
                   savings |-> savings, debt |-> debt, dependents |-> dependents,
                   inflation |-> inflation, roi |-> roi,
                   ins_gap |-> r1.out.val[1], ins_gross |-> r1.out.val[2],
                   ret_target |-> r2.out.val[1], years_to_ret |-> r2.out.val[2],
                   monthly_req |-> r3.out.val[1], risk_profile |-> r4.out.val[1]]
    IN  IF r1.out.status # "ok" THEN Done(r1.self, r1.out)
        ELSE IF r2.out.status # "ok" THEN Done(r2.self, r2.out)
        ELSE Done(r4.self, Ok(<<locals>>))

Main ==
    /\ engine = NoEngine
    /\ \E age \in MainAge :
        IF ~slider_ok(age + 1, RETIRE_AGE_MAX, RETIRE_AGE_DEFAULT)
        THEN /\ engine' = NoEngine
             /\ ret' = Raise("StreamlitAPIException")
        ELSE \E retire_age \in MainRetireAge(age), income \in MainIncome,
                savings \in MainSavings, debt \in MainDebt,
                dependents \in MainDependents, inflation \in MainInflation,
                roi \in MainReturn :
                LET r == main(age, retire_age, income, savings, debt, dependents,
                              inflation, roi)
                IN  /\ engine' = r.self
                    /\ ret' = r.out
    /\ last' = "main"

Next ==
    \/ Construct
    \/ Discard
    \/ SetConstant
    \/ CallInsuranceGap
    \/ CallRetirementTarget
    \/ CallMonthlySavingsReq
    \/ CallRiskProfile
    \/ Main

Spec == Init /\ [][Next]_vars

----------------------------------------------------------------------------
(* Properties.                                                             *)

Years(self) == self.retire_age - self.age

\* the constraints of the data model on a profile
ValidProfile(self) ==
    /\ self.age < self.retire_age
    /\ self.income >= 0 /\ self.savings >= 0 /\ self.debt >= 0
    /\ 0 <= self.dependents /\ self.dependents <= DEPENDENTS_MAX

\* C1: for a profile with non-negative income, debt and savings (and the
\* positive discount rate the spec fixes), calc_insurance_gap returns (0, 0)
\* when dependents == 0 and otherwise (net_need, gross_need) with
\* net_need = max(0, gross_need + debt - savings); net_need is never
\* negative, does not decrease when debt grows and does not increase when
\* savings grow.
C1_InsuranceGapContract ==
    (/\ last = "calc_insurance_gap"
     /\ engine.income >= 0 /\ engine.debt >= 0 /\ engine.savings >= 0
     /\ engine.INSURANCE_DISCOUNT_RATE > 0)
    => /\ ret.status = "ok"
       /\ IF engine.dependents = 0 THEN ret.val = <<0, 0>>
          ELSE /\ ret.val[1] = Max(0, ret.val[2] + FP(engine.debt) - FP(engine.savings))
               /\ ret.val[1] >= 0
               /\ \A d \in {x \in DirectDebt \cup MainDebt : x >= engine.debt} :
                    calc_insurance_gap([engine EXCEPT !.debt = d]).out.val[1] >= ret.val[1]
               /\ \A sv \in {x \in DirectSavings \cup MainSavings : x >= engine.savings} :
                    calc_insurance_gap([engine EXCEPT !.savings = sv]).out.val[1] <= ret.val[1]

\* C1 witness: a call with dependents whose gross need is positive and whose
\* net need is floored at 0 by the savings
C1_Witness ==
    /\ last = "calc_insurance_gap"
    /\ engine.dependents > 0 /\ engine.income > 0 /\ engine.debt > 0
    /\ engine.savings > 0 /\ engine.INSURANCE_DISCOUNT_RATE > 0
    /\ ret.status = "ok" /\ ret.val[1] = 0 /\ ret.val[2] > 0

\* the scoring table of the spec, on exact ratios: debt_ratio = debt / income
\* if income > 0, else debt / 1
SpecScore(self) ==
    LET years == self.retire_age - self.age
        den == IF self.income > 0 THEN self.income ELSE 1
        horizon == IF years > 20 THEN 3 ELSE IF 10 < years /\ years <= 20 THEN 2 ELSE 1
        leverage == IF 10 * self.debt < 3 * den THEN 2
                    ELSE IF self.debt < den THEN 1
                    ELSE -1
    IN  horizon + leverage

SpecLabel(self) ==
    IF SpecScore(self) >= 4 THEN "High (Growth Focused)"
    ELSE IF SpecScore(self) = 3 THEN "Medium (Balanced)"
    ELSE "Low (Preservation Focused)"

\* C2: get_risk_profile returns the label of the spec's scoring table: 3, 2
\* or 1 points for the horizon, 2, 1 or -1 for the leverage, High from 4
\* points, Medium at 3, Low up to 2.
C2_RiskTable ==
    last = "get_risk_profile" => ret = Ok(<<SpecLabel(engine)>>)

\* C2 witness: a Medium profile on the leverage boundary debt / income = 0.3
C2_Witness ==
    /\ last = "get_risk_profile"
    /\ engine.income > 0 /\ 10 * engine.debt = 3 * engine.income
    /\ Years(engine) = 11
    /\ ret = Ok(<<"Medium (Balanced)">>)

C3_Case ==
    /\ last = "get_risk_profile"
    /\ Years(engine) = 10
    /\ engine.income > 0 /\ 2 * engine.debt = engine.income

\* C3 as stated: a profile with retire_age - age = 10 and debt / income = 0.5
\* scores 3 and gets the Medium label.
C3_TenYearsMedium ==
    (C3_Case /\ ValidProfile(engine)) => ret = Ok(<<"Medium (Balanced)">>)

\* C3 amended: a profile with retire_age - age = 10 and debt / income = 0.5
\* scores 1 + 1 = 2 and gets the Low label.
C3_TenYearsLow ==
    C3_Case => /\ SpecScore(engine) = 2
               /\ ret = Ok(<<"Low (Preservation Focused)">>)

\* C3 witness: get_risk_profile has run on such a profile
C3_Witness == C3_Case /\ ret.status = "ok"

\* C4: construction from an invalid profile fails, so that no engine with an
\* invalid profile exists.
C4_InvalidProfileRejected ==
    engine # NoEngine => ValidProfile(engine)

\* C5: with INSURANCE_DISCOUNT_RATE set to 0, calc_insurance_gap ends in the
\* 'invalid constant' error for every profile: no division by zero, no normal
\* result.
C5_ZeroRateInvalidConstant ==
    (/\ last = "calc_insurance_gap"
     /\ ValidProfile(engine)
     /\ engine.INSURANCE_DISCOUNT_RATE = 0)
    => ret.status = "invalid constant"

\* C6: a call of one of the four calculations leaves every profile field and
\* every constant unchanged (in main() too, where the engine after the four
\* calls is the engine as constructed), and a calculation called again with
\* the same arguments returns what it returned before.
C6_CallsLeaveEngineUnchanged ==
    [][/\ last' \in CalcOps => engine' = engine
       /\ (last' = "main" /\ ret'.status = "ok") =>
            LET l == ret'.val[1]
            IN  engine' = FinancialEngine_init(l.age, l.income, l.dependents, l.debt,
                                               l.savings, l.retire_age, l.inflation, l.roi)
       /\ (last \in CalcOps /\ last' = last) =>
            \/ ret' = ret
            \/ /\ last = "calc_monthly_savings_req"
               /\ <<ret'.val[2], ret'.val[3]>> # <<ret.val[2], ret.val[3]>>]_vars

\* C6 witness: a calculation has returned a result on an engine whose
\* constant was overridden before
C6_Witness ==
    /\ last = "calc_monthly_savings_req"
    /\ engine.INCOME_REPLACEMENT_RATIO # INCOME_REPLACEMENT_RATIO
    /\ ret.status = "ok" /\ ret.val[1] > 0

\* C7: with retire_age - age <= 0 calc_retirement_target returns (0, 0), and
\* calc_monthly_savings_req with years_to_retire <= 0 returns 0 for any
\* target, the fed-back output of calc_retirement_target included.
C7_NoHorizonZero ==
    /\ (last = "calc_retirement_target" /\ Years(engine) <= 0) => ret = Ok(<<0, 0>>)
    /\ (last = "calc_monthly_savings_req" /\ ret.val[3] <= 0)
         => ret.status = "ok" /\ ret.val[1] = 0
    /\ (last = "main" /\ ret.status = "ok" /\ ret.val[1].years_to_ret <= 0)
         => ret.val[1].monthly_req = 0

\* C7 witness: calc_retirement_target has run on a profile with
\* retire_age = age, income and savings
C7_Witness ==
    /\ last = "calc_retirement_target"
    /\ Years(engine) = 0 /\ engine.income > 0 /\ engine.savings > 0
    /\ ret.status = "ok"

\* C8: calc_insurance_gap with dependents > 0 computes the annual support as
\* income * INCOME_REPLACEMENT_RATIO, whatever value the constant was
\* overridden to.
C8_InsuranceReadsReplacementRatio ==
    (/\ last = "calc_insurance_gap"
     /\ ValidProfile(engine) /\ engine.dependents > 0
     /\ ret.status = "ok")
    => LET r == engine.INSURANCE_DISCOUNT_RATE
           annual_support == FMul(FP(engine.income), engine.INCOME_REPLACEMENT_RATIO)
       IN  ret.val[2] = FMul(annual_support, FDiv(Scale - Pow(Scale + r, -20), r))

\* C9: with investment_return == 0 and years_to_retire > 0,
\* calc_monthly_savings_req returns (target_corpus - savings) / (years * 12),
\* negative when the savings exceed the target.
C9_ZeroReturnLinear ==
    (/\ last = "calc_monthly_savings_req"
     /\ engine.investment_return = 0
     /\ ret.val[3] > 0)
    => /\ ret.status = "ok"
       /\ ret.val[1] = TruncDiv(ret.val[2] - FP(engine.savings), ret.val[3] * 12)

\* C9 witness: such a call whose savings exceed the target, with a negative
\* result
C9_Witness ==
    /\ last = "calc_monthly_savings_req"
    /\ engine.investment_return = 0
    /\ ret.val[3] > 0 /\ FP(engine.savings) > ret.val[2]
    /\ ret.status = "ok" /\ ret.val[1] < 0

\* C10: every profile main() passes to FinancialEngine has 18 <= age <= 70,
\* age < retire_age <= 80, 0 <= dependents <= 5 and non-negative income,
\* savings and debt.
C10_MainProfileInRange ==
    (last = "main" /\ engine # NoEngine)
    => /\ AGE_MIN <= engine.age /\ engine.age <= AGE_MAX
       /\ engine.age < engine.retire_age /\ engine.retire_age <= RETIRE_AGE_MAX
       /\ 0 <= engine.dependents /\ engine.dependents <= DEPENDENTS_MAX
       /\ engine.income >= 0 /\ engine.savings >= 0 /\ engine.debt >= 0

====
